---------------------------- MODULE Spec2Model ----------------------------
(***************************************************************************)
(* delete-unused-repo (src/src/main.rs): the run of `main` as a state      *)
(* machine.  The main task walks login -> page collection -> filter ->     *)
(* selection prompt -> confirmation prompt -> deletion executor, while the *)
(* tasks it spawns (page fetches, deletions) advance on their own.         *)
(*                                                                         *)
(* Option<T> is modelled as a sequence: None is <<>> and Some(x) is <<x>>. *)
(* Rust's 0-based indices into `keys` are 1-based here.                    *)
(***************************************************************************)
EXTENDS Integers, Sequences, FiniteSets, TLC

VARIABLES
  pc,           \* position of the main task
  exitCode,     \* process status once the process has ended, None before
  endedBy,      \* history: the statement that ended the run, "" before
  args,         \* the parsed Cli (fork, visibility, owner, star)
  numPages,     \* first.number_of_pages(), None until page 1 has arrived
  pageTasks,    \* spawned get_repos(i) tasks, in spawn order
  pageChan,     \* mpsc::channel(32) of page-task handles
  cur,          \* handle the main task holds (to send, or to await); 0: none
  repos,        \* the merged Vec of line 102
  served,       \* history: requested page number -> items the API returned
  fetchFailed,  \* history: some page fetch returned Err
  fetched,      \* history: the repositories merged into `repos` so far
  outOfOrder,   \* history: a page arrived before a page spawned earlier
  matched,      \* the filtered Vec of line 128
  map,          \* HashMap full_name -> repository (a function)
  keys,         \* map.keys() collected, in the HashMap's iteration order
  pairs,        \* history: number of (full_name, repo) pairs of line 157
  presented,    \* history: the item list the MultiSelect prompt was given
  result,       \* outcome of MultiSelect::interact_opt
  confirm,      \* outcome of Input::interact
  confirmed,    \* the Vec of line 191: the repositories to delete
  idx,          \* position of `for repo in repos` (line 203)
  delTasks,     \* spawned deletion tasks, in spawn order
  delChan,      \* mpsc::channel(64) of deletion-task handles
  deleteCalls,  \* history: <<owner, name>> of every delete request issued
  errorLog,     \* history: deletion tasks that logged "Failed to delete"
  progressMsgs, \* history: deletion tasks that set the "Deleted o/r" message
  progress      \* p1's position (number of p1.inc(1))

vars == <<pc, exitCode, endedBy, args, numPages, pageTasks, pageChan, cur,
          repos, served, fetchFailed, fetched, outOfOrder, matched, map,
          keys, pairs, presented, result, confirm, confirmed, idx, delTasks,
          delChan, deleteCalls, errorLog, progressMsgs, progress>>

---------------------------------------------------------------------------
(* Bounds of the model *)

\* most pages the API reports for the listing
MaxPages == 3
\* most repositories the listing holds, all pages together
MaxRepos == 3
\* largest star count and largest --star value (filter specification)
MaxStars == 1
\* longest repository list handed to the filter (filter specification)
MaxFilterLen == 1

(* Program constants *)

PageChanCap == 32
DelChanCap == 64
U8Modulus == 256

---------------------------------------------------------------------------
(* Option<T> and its derived ordering (None < Some(_)) *)

None == <<>>
Some(x) == <<x>>
IsSome(o) == o # None
Unwrap(o) == o[1]

\* a <= b for Option<u32>: None is below every Some
OptLe(a, b) ==
  IF a = None THEN TRUE
  ELSE IF b = None THEN FALSE
  ELSE Unwrap(a) <= Unwrap(b)

\* a >= b for Option<u32>
OptGe(a, b) == OptLe(b, a)

\* `i as u8`
AsU8(i) == i % U8Modulus

Range(s) == {s[i] : i \in DOMAIN s}

RECURSIVE Flatten(_)
Flatten(ss) == IF ss = <<>> THEN <<>> ELSE Head(ss) \o Flatten(Tail(ss))

RECURSIVE SeqsUpTo(_, _)
\* every sequence over S of length at most n
SeqsUpTo(S, n) ==
  IF n = 0 THEN {<<>>}
  ELSE LET shorter == SeqsUpTo(S, n - 1)
       IN  shorter \cup {Append(s, x) : s \in shorter, x \in S}

\* number of positions of s holding x
Count(s, x) == Cardinality({i \in DOMAIN s : s[i] = x})

SameBag(s, t) == \A x \in Range(s) \cup Range(t) : Count(s, x) = Count(t, x)

---------------------------------------------------------------------------
(* Repositories: the fields of octocrab's Repository that main reads *)

Repo(fn, ow, vis, fk, st) ==
  [full_name |-> fn, name |-> fn, owner |-> ow, visibility |-> vis,
   fork |-> fk, stargazers_count |-> st]

\* a public fork without stars, owned by alice
RepoA == Repo(1, Some("alice"), Some("public"), Some(TRUE), Some(0))
\* another public fork without stars, owned by alice
RepoB == Repo(4, Some("alice"), Some("public"), Some(TRUE), Some(0))
\* a public fork without stars whose owner field is absent
RepoG == Repo(2, None, Some("public"), Some(TRUE), Some(0))
\* a public repository of alice that is not a fork
RepoN == Repo(3, Some("alice"), Some("public"), Some(FALSE), Some(0))

Universe == {RepoA, RepoB, RepoG, RepoN}

\* what number_of_pages() may report
PageCounts == {None} \cup {Some(n) : n \in 1..MaxPages}

\* the Cli defaults: --fork true, --visibility public, no --owner, --star 0
DefaultArgs ==
  [fork |-> TRUE, visibility |-> {"public"}, owner |-> None, star |-> 0]

ConfirmStr == "I want to remove all repos above"

\* what the user may type at the second prompt
TypedTexts == {ConfirmStr, "i want to remove all repos above", ""}

Unset == [tag |-> "Unset", sel |-> <<>>, text |-> ""]

Finished == {"exited", "returned", "done"}

---------------------------------------------------------------------------
(* Initial state: main has parsed its arguments (line 49) *)

Init ==
  /\ pc = "login"
  /\ exitCode = None
  /\ endedBy = ""
  /\ args = DefaultArgs
  /\ numPages = None
  /\ pageTasks = <<>>
  /\ pageChan = <<>>
  /\ cur = 0
  /\ repos = <<>>
  /\ served = <<>>
  /\ fetchFailed = FALSE
  /\ fetched = {}
  /\ outOfOrder = FALSE
  /\ matched = <<>>
  /\ map = <<>>
  /\ keys = <<>>
  /\ pairs = 0
  /\ presented = None
  /\ result = Unset
  /\ confirm = Unset
  /\ confirmed = <<>>
  /\ idx = 1
  /\ delTasks = <<>>
  /\ delChan = <<>>
  /\ deleteCalls = {}
  /\ errorLog = {}
  /\ progressMsgs = {}
  /\ progress = 0

\* std::process::exit(code), reached at the statement `why`
Exit(code, why) ==
  /\ pc' = "exited"
  /\ exitCode' = Some(code)
  /\ endedBy' = why

pageVars == <<numPages, pageTasks, pageChan, repos, served, fetchFailed,
             fetched, outOfOrder>>
gateVars == <<matched, map, keys, pairs, presented, result, confirm,
             confirmed>>
delVars == <<idx, delTasks, delChan, deleteCalls, errorLog, progressMsgs,
             progress>>

---------------------------------------------------------------------------
(* [1/4] login, lines 62-72 *)

LoginOk ==
  /\ pc = "login"
  /\ pc' = "fetch_first"
  /\ UNCHANGED <<exitCode, endedBy, args, cur>>
  /\ UNCHANGED <<pageVars, gateVars, delVars>>

LoginFail ==
  /\ pc = "login"
  /\ Exit(1, "login")
  /\ UNCHANGED <<args, cur>>
  /\ UNCHANGED <<pageVars, gateVars, delVars>>

---------------------------------------------------------------------------
(* [2/4] page collection, lines 81-120 *)

\* number of repositories the API has returned so far
ServedTotal ==
  LET RECURSIVE Total(_)
      Total(P) == IF P = {} THEN 0
                  ELSE LET p == CHOOSE x \in P : TRUE
                       IN  Len(served[p]) + Total(P \ {p})
  IN  Total(DOMAIN served)

\* the pages the API may still return, the listing holding MaxRepos at most
Pages == SeqsUpTo(Universe, MaxRepos - ServedTotal)

Put(f, k, v) == [x \in DOMAIN f \cup {k} |-> IF x = k THEN v ELSE f[x]]

\* the range without its last page, as `2..page_num.unwrap()` would give
PageRangeExclusive(pn) == 2..(Unwrap(pn) - 1)

\* the page numbers of `for i in 2..=page_num.unwrap()`
PageRange(pn) == 2..Unwrap(pn)

\* `page_num >= Some(2)`
HasMorePages(pn) == OptGe(pn, Some(2))

\* the loop variable i of line 109: one task has been spawned per earlier i
NextPage == Len(pageTasks) + 2

\* get_repos(i): the request carries `i as u8`
NewPageTask(i) == [req |-> AsU8(i), st |-> "running", items |-> <<>>]

\* line 104, Ok arm: page 1 arrives with its items and the page count
FetchFirstOk(pn, items) ==
  /\ pc = "fetch_first"
  /\ numPages' = pn
  /\ repos' = repos \o items
  /\ served' = Put(served, 1, items)
  /\ fetched' = fetched \cup Range(items)
  /\ pc' = IF HasMorePages(pn) THEN "page_spawn" ELSE "filter"
  /\ UNCHANGED <<exitCode, endedBy, args, cur, pageTasks, pageChan,
                 fetchFailed, outOfOrder>>
  /\ UNCHANGED <<gateVars, delVars>>

\* line 104, Err arm (lines 93-96): exit(1)
FetchFirstFail ==
  /\ pc = "fetch_first"
  /\ fetchFailed' = TRUE
  /\ Exit(1, "fetch")
  /\ UNCHANGED <<args, cur, numPages, pageTasks, pageChan, repos, served,
                 fetched, outOfOrder>>
  /\ UNCHANGED <<gateVars, delVars>>

\* line 111: tokio::spawn(get_repos(i))
PageSpawn ==
  /\ pc = "page_spawn"
  /\ NextPage \in PageRange(numPages)
  /\ pageTasks' = Append(pageTasks, NewPageTask(NextPage))
  /\ pc' = "page_send"
  /\ UNCHANGED <<exitCode, endedBy, args, cur, numPages, pageChan, repos,
                 served, fetchFailed, fetched, outOfOrder>>
  /\ UNCHANGED <<gateVars, delVars>>

\* line 112: tx.send(handle).await completes only while the channel has room
PageSend ==
  /\ pc = "page_send"
  /\ Len(pageChan) < PageChanCap
  /\ pageChan' = Append(pageChan, Len(pageTasks))
  /\ pc' = "page_spawn"
  /\ UNCHANGED <<exitCode, endedBy, args, cur, numPages, pageTasks, repos,
                 served, fetchFailed, fetched, outOfOrder>>
  /\ UNCHANGED <<gateVars, delVars>>

\* line 114: the loop is over, drop(tx)
PageDropTx ==
  /\ pc = "page_spawn"
  /\ NextPage \notin PageRange(numPages)
  /\ pc' = "page_recv"
  /\ UNCHANGED <<exitCode, endedBy, args, cur>>
  /\ UNCHANGED <<pageVars, gateVars, delVars>>

\* the receiver taking any queued handle instead of the oldest
PageRecvAny ==
  /\ pc = "page_recv"
  /\ \E i \in DOMAIN pageChan :
       /\ cur' = pageChan[i]
       /\ pageChan' = SubSeq(pageChan, 1, i - 1)
                        \o SubSeq(pageChan, i + 1, Len(pageChan))
  /\ pc' = "page_await"
  /\ UNCHANGED <<exitCode, endedBy, args, numPages, pageTasks, repos,
                 served, fetchFailed, fetched, outOfOrder>>
  /\ UNCHANGED <<gateVars, delVars>>

\* line 116: rx.recv() yields the oldest handle
PageRecv ==
  /\ pc = "page_recv"
  /\ pageChan # <<>>
  /\ cur' = Head(pageChan)
  /\ pageChan' = Tail(pageChan)
  /\ pc' = "page_await"
  /\ UNCHANGED <<exitCode, endedBy, args, numPages, pageTasks, repos,
                 served, fetchFailed, fetched, outOfOrder>>
  /\ UNCHANGED <<gateVars, delVars>>

\* what line 117 appends once the awaited task has finished
Joined(task) == task.items

\* line 117: repos.extend(get_repo.await.unwrap().items)
PageAwait ==
  /\ pc = "page_await"
  /\ pageTasks[cur].st = "done"
  /\ repos' = repos \o Joined(pageTasks[cur])
  /\ pageTasks' = [pageTasks EXCEPT ![cur] =
                     [req |-> @.req, st |-> "joined", items |-> <<>>]]
  /\ fetched' = fetched \cup Range(Joined(pageTasks[cur]))
  /\ cur' = 0
  /\ pc' = "page_recv"
  /\ UNCHANGED <<exitCode, endedBy, args, numPages, pageChan, served,
                 fetchFailed, outOfOrder>>
  /\ UNCHANGED <<gateVars, delVars>>

\* line 116: rx.recv() yields None (channel empty, sender dropped)
PageYield ==
  /\ pc = "page_recv"
  /\ pageChan = <<>>
  /\ pc' = "filter"
  /\ UNCHANGED <<exitCode, endedBy, args, cur>>
  /\ UNCHANGED <<pageVars, gateVars, delVars>>

\* a spawned get_repos(i), Ok arm (line 92): the page arrives
PageTaskDone(k, items) ==
  /\ pc \notin Finished
  /\ k \in DOMAIN pageTasks
  /\ pageTasks[k].st = "running"
  /\ pageTasks' = [pageTasks EXCEPT ![k] =
                     [req |-> @.req, st |-> "done", items |-> items]]
  /\ served' = Put(served, pageTasks[k].req, items)
  /\ outOfOrder' = (outOfOrder \/ \E j \in 1..(k - 1) :
                                     pageTasks[j].st = "running")
  /\ UNCHANGED <<pc, exitCode, endedBy, args, cur, numPages, pageChan, repos,
                 fetchFailed, fetched>>
  /\ UNCHANGED <<gateVars, delVars>>

\* a failed fetch that yields an empty page instead of ending the process
PageTaskFailSoft(k) ==
  /\ pc \notin Finished
  /\ k \in DOMAIN pageTasks
  /\ pageTasks[k].st = "running"
  /\ fetchFailed' = TRUE
  /\ pageTasks' = [pageTasks EXCEPT ![k] =
                     [req |-> @.req, st |-> "done", items |-> <<>>]]
  /\ served' = Put(served, pageTasks[k].req, <<>>)
  /\ UNCHANGED <<pc, exitCode, endedBy, args, cur, numPages, pageChan, repos,
                 fetched, outOfOrder>>
  /\ UNCHANGED <<gateVars, delVars>>

\* a spawned get_repos(i), Err arm (lines 93-96): exit(1) from the task
PageTaskFail(k) ==
  /\ pc \notin Finished
  /\ k \in DOMAIN pageTasks
  /\ pageTasks[k].st = "running"
  /\ fetchFailed' = TRUE
  /\ Exit(1, "fetch")
  /\ UNCHANGED <<args, cur, numPages, pageTasks, pageChan, repos, served,
                 fetched, outOfOrder>>
  /\ UNCHANGED <<gateVars, delVars>>

---------------------------------------------------------------------------
(* [3/4] filter, lines 128-155 *)

\* lines 130-140: an --owner list must contain the owner, when both are known
OwnerFilter(r, a) ==
  IF IsSome(r.owner)
  THEN IF IsSome(a.owner) THEN Unwrap(r.owner) \in Unwrap(a.owner) ELSE TRUE
  ELSE TRUE

\* lines 141-147: --visibility must contain the visibility, when it is known
VisFilter(r, a) ==
  IF IsSome(r.visibility) THEN Unwrap(r.visibility) \in a.visibility ELSE TRUE

\* line 148: r.fork == Some(args.fork)
ForkFilter(r, a) == r.fork = Some(a.fork)

\* the star bound taken as exclusive
StarFilterStrict(r, a) ==
  /\ OptLe(r.stargazers_count, Some(a.star))
  /\ r.stargazers_count # Some(a.star)

\* line 149: r.stargazers_count <= Some(args.star)
StarFilter(r, a) == OptLe(r.stargazers_count, Some(a.star))

\* the chain with a stray .skip(1) at its end
FilterReposSkipFirst(rs, a) ==
  LET ByOwner(r) == OwnerFilter(r, a)
      ByVis(r) == VisFilter(r, a)
      ByFork(r) == ForkFilter(r, a)
      ByStar(r) == StarFilter(r, a)
      kept == SelectSeq(SelectSeq(SelectSeq(SelectSeq(rs, ByOwner), ByVis),
                                  ByFork), ByStar)
  IN  IF kept = <<>> THEN <<>> ELSE Tail(kept)

\* lines 128-150: the four filters, one after the other
FilterRepos(rs, a) ==
  LET ByOwner(r) == OwnerFilter(r, a)
      ByVis(r) == VisFilter(r, a)
      ByFork(r) == ForkFilter(r, a)
      ByStar(r) == StarFilter(r, a)
  IN  SelectSeq(SelectSeq(SelectSeq(SelectSeq(rs, ByOwner), ByVis), ByFork),
                ByStar)

FilterStep ==
  /\ pc = "filter"
  /\ matched' = FilterRepos(repos, args)
  /\ pc' = "check_empty"
  /\ UNCHANGED <<exitCode, endedBy, args, cur, map, keys, pairs, presented,
                 result, confirm, confirmed>>
  /\ UNCHANGED <<pageVars, delVars>>

\* the empty result reported as a failure
NoMatchFail ==
  /\ pc = "check_empty"
  /\ matched = <<>>
  /\ Exit(1, "no_match")
  /\ UNCHANGED <<args, cur>>
  /\ UNCHANGED <<pageVars, gateVars, delVars>>

\* lines 152-155: "No matched repos", exit(0)
NoMatch ==
  /\ pc = "check_empty"
  /\ matched = <<>>
  /\ Exit(0, "no_match")
  /\ UNCHANGED <<args, cur>>
  /\ UNCHANGED <<pageVars, gateVars, delVars>>

---------------------------------------------------------------------------
(* selection and confirmation, lines 157-201 *)

\* lines 157-161: HashMap::from_iter keeps, per full_name, the last pair
MapFromIter(rs) ==
  [n \in {rs[i].full_name : i \in DOMAIN rs} |->
     LET last == CHOOSE i \in DOMAIN rs :
                   /\ rs[i].full_name = n
                   /\ \A j \in DOMAIN rs : rs[j].full_name = n => j <= i
     IN  rs[last]]

\* every order in which a set can be listed
Orders(S) ==
  {s \in [1..Cardinality(S) -> S] : \A x \in S : \E i \in DOMAIN s : s[i] = x}

\* the keys taken from the pairs of line 157 instead of from the map
KeysOfPairs(rs) == {[i \in DOMAIN rs |-> rs[i].full_name]}

\* line 163: map.keys(), in whatever order the HashMap iterates
KeysOf(rs) == Orders(DOMAIN MapFromIter(rs))

BuildMap(ks) ==
  /\ pc = "check_empty"
  /\ matched # <<>>
  /\ ks \in KeysOf(matched)
  /\ map' = MapFromIter(matched)
  /\ keys' = ks
  /\ pairs' = Len(matched)
  /\ matched' = <<>>
  /\ repos' = <<>>
  /\ served' = <<>>
  /\ pc' = "select"
  /\ UNCHANGED <<exitCode, endedBy, args, cur, numPages, pageTasks, pageChan,
                 fetchFailed, fetched, outOfOrder, presented, result,
                 confirm, confirmed>>
  /\ UNCHANGED delVars

RECURSIVE Ascending(_)
\* the members of a set of numbers, smallest first
Ascending(S) ==
  IF S = {} THEN <<>>
  ELSE LET m == CHOOSE x \in S : \A y \in S : x <= y
       IN  <<m>> \o Ascending(S \ {m})

\* what interact_opt() may return for n items: Err, Ok(None), Ok(Some(checked))
GateResults(n) ==
  {[tag |-> "Err", sel |-> <<>>, text |-> ""],
   [tag |-> "Cancel", sel |-> <<>>, text |-> ""]}
  \cup {[tag |-> "Some", sel |-> Ascending(S), text |-> ""] :
          S \in SUBSET (1..n)}

\* line 175: result.is_err() || result is Ok(None)
GateCancelled(res) == res.tag = "Err" \/ res.tag = "Cancel"

\* lines 164-178: the MultiSelect prompt and the check of its outcome
SelectPrompt(res) ==
  /\ pc = "select"
  /\ res \in GateResults(Len(keys))
  /\ presented' = Some(keys)
  /\ result' = res
  /\ IF GateCancelled(res)
     THEN Exit(1, "select")
     ELSE pc' = "confirm" /\ UNCHANGED <<exitCode, endedBy>>
  /\ UNCHANGED <<args, cur, matched, map, keys, pairs, confirm, confirmed>>
  /\ UNCHANGED <<pageVars, delVars>>

\* what Input::interact() may return: Err, or Ok(the text typed)
ConfirmResults ==
  {[tag |-> "Err", sel |-> <<>>, text |-> ""]}
  \cup {[tag |-> "Ok", sel |-> <<>>, text |-> t] : t \in TypedTexts}

\* the comparison made without regard to case
ConfirmMatchesAnyCase(c) ==
  c.tag = "Ok" /\ c.text \in {ConfirmStr, "i want to remove all repos above"}

\* line 184: confirm.is_ok() && confirm.unwrap() == confirm_str
ConfirmMatches(c) == c.tag = "Ok" /\ c.text = ConfirmStr

\* the selected indices taken as 0-based into a 1-based list
ToDeleteShifted(sel, m, ks) ==
  [i \in 1..Len(sel) |-> m[ks[(sel[i] % Len(ks)) + 1]]]

\* line 192: to_del.into_iter().map(|idx| map[keys[idx]].clone()).collect()
ToDelete(sel, m, ks) == [i \in 1..Len(sel) |-> m[ks[sel[i]]]]

\* lines 180-201: the second prompt, its check, and the list to delete
ConfirmPrompt(c) ==
  /\ pc = "confirm"
  /\ c \in ConfirmResults
  /\ confirm' = c
  /\ IF ~ConfirmMatches(c)
     THEN Exit(1, "confirm") /\ UNCHANGED <<confirmed, map, keys>>
     ELSE IF result.tag = "Some"
     THEN /\ confirmed' = ToDelete(result.sel, map, keys)
          /\ map' = <<>>
          /\ keys' = <<>>
          /\ pc' = "dispatch"
          /\ UNCHANGED <<exitCode, endedBy>>
     ELSE Exit(0, "no_subset") /\ UNCHANGED <<confirmed, map, keys>>
  /\ UNCHANGED <<args, cur, matched, pairs, presented, result>>
  /\ UNCHANGED <<pageVars, delVars>>

---------------------------------------------------------------------------
(* [4/4] deletion executor, lines 202-225 *)

\* lines 204-210: the task built for one repository
NewDelTask(repo) ==
  [owner |-> Unwrap(repo.owner), name |-> repo.name, st |-> "spawned"]

\* line 205: if owner.is_none() { return; }
DelMissingOwner ==
  /\ pc = "dispatch"
  /\ idx <= Len(confirmed)
  /\ confirmed[idx].owner = None
  /\ pc' = "returned"
  /\ exitCode' = Some(0)
  /\ endedBy' = "no_owner"
  /\ UNCHANGED <<args, cur>>
  /\ UNCHANGED <<pageVars, gateVars, delVars>>

\* lines 206-217: tokio::spawn(handle)
DelSpawn ==
  /\ pc = "dispatch"
  /\ idx <= Len(confirmed)
  /\ confirmed[idx].owner # None
  /\ delTasks' = Append(delTasks, NewDelTask(confirmed[idx]))
  /\ pc' = "del_send"
  /\ UNCHANGED <<exitCode, endedBy, args, cur, idx, delChan, deleteCalls,
                 errorLog, progressMsgs, progress>>
  /\ UNCHANGED <<pageVars, gateVars>>

\* line 217: tx.send(..).await completes only while the channel has room
DelSend ==
  /\ pc = "del_send"
  /\ Len(delChan) < DelChanCap
  /\ delChan' = Append(delChan, Len(delTasks))
  /\ idx' = idx + 1
  /\ pc' = "dispatch"
  /\ UNCHANGED <<exitCode, endedBy, args, cur, delTasks, deleteCalls, errorLog,
                 progressMsgs, progress>>
  /\ UNCHANGED <<pageVars, gateVars>>

\* line 219: the loop is over, drop(tx)
DelDropTx ==
  /\ pc = "dispatch"
  /\ idx > Len(confirmed)
  /\ pc' = "drain"
  /\ UNCHANGED <<exitCode, endedBy, args, cur>>
  /\ UNCHANGED <<pageVars, gateVars, delVars>>

\* line 220: rx.recv() yields the oldest handle
DelRecv ==
  /\ pc = "drain"
  /\ delChan # <<>>
  /\ cur' = Head(delChan)
  /\ delChan' = Tail(delChan)
  /\ pc' = "del_await"
  /\ UNCHANGED <<exitCode, endedBy, args, idx, delTasks, deleteCalls, errorLog,
                 progressMsgs, progress>>
  /\ UNCHANGED <<pageVars, gateVars>>

\* a deletion task has run to its end
Completed(task) == task.st \in {"ok", "failed"}

\* line 221: handle.await.unwrap()
DelAwait ==
  /\ pc = "del_await"
  /\ Completed(delTasks[cur])
  /\ cur' = 0
  /\ pc' = "drain"
  /\ UNCHANGED <<exitCode, endedBy, args>>
  /\ UNCHANGED <<pageVars, gateVars, delVars>>

\* lines 220-225: rx.recv() yields None; "Done", main returns
DelDone ==
  /\ pc = "drain"
  /\ delChan = <<>>
  /\ pc' = "done"
  /\ exitCode' = Some(0)
  /\ endedBy' = "done"
  /\ UNCHANGED <<args, cur>>
  /\ UNCHANGED <<pageVars, gateVars, delVars>>

\* line 211: the task sends gh.repos(owner, repo).delete()
DelTaskCall(k) ==
  /\ pc \notin Finished
  /\ k \in DOMAIN delTasks
  /\ delTasks[k].st = "spawned"
  /\ delTasks' = [delTasks EXCEPT ![k].st = "calling"]
  /\ deleteCalls' = deleteCalls \cup
       {[task |-> k, owner |-> delTasks[k].owner, name |-> delTasks[k].name]}
  /\ UNCHANGED <<pc, exitCode, endedBy, args, cur, idx, delChan, errorLog,
                 progressMsgs, progress>>
  /\ UNCHANGED <<pageVars, gateVars>>

\* lines 211-215: the call returns; error! on Err, then the message and inc(1)
DelTaskFinish(k, ok) ==
  /\ pc \notin Finished
  /\ k \in DOMAIN delTasks
  /\ delTasks[k].st = "calling"
  /\ delTasks' = [delTasks EXCEPT ![k].st = IF ok THEN "ok" ELSE "failed"]
  /\ errorLog' = IF ok THEN errorLog ELSE errorLog \cup {k}
  /\ progressMsgs' = progressMsgs \cup {k}
  /\ progress' = progress + 1
  /\ UNCHANGED <<pc, exitCode, endedBy, args, cur, idx, delChan, deleteCalls>>
  /\ UNCHANGED <<pageVars, gateVars>>

---------------------------------------------------------------------------
(* The run *)

Next ==
  \/ LoginOk
  \/ LoginFail
  \/ \E pn \in PageCounts, items \in Pages : FetchFirstOk(pn, items)
  \/ FetchFirstFail
  \/ PageSpawn
  \/ PageSend
  \/ PageDropTx
  \/ PageRecv
  \/ PageAwait
  \/ PageYield
  \/ \E k \in DOMAIN pageTasks, items \in Pages : PageTaskDone(k, items)
  \/ \E k \in DOMAIN pageTasks : PageTaskFail(k)
  \/ FilterStep
  \/ NoMatch
  \/ \E ks \in KeysOf(matched) : BuildMap(ks)
  \/ \E res \in GateResults(Len(keys)) : SelectPrompt(res)
  \/ \E c \in ConfirmResults : ConfirmPrompt(c)
  \/ DelMissingOwner
  \/ DelSpawn
  \/ DelSend
  \/ DelDropTx
  \/ DelRecv
  \/ DelAwait
  \/ DelDone
  \/ \E k \in DOMAIN delTasks : DelTaskCall(k)
  \/ \E k \in DOMAIN delTasks, ok \in BOOLEAN : DelTaskFinish(k, ok)

Spec == Init /\ [][Next]_vars

---------------------------------------------------------------------------
(* The filter on its own: every criteria bundle against every short list *)

OwnerValues == {None, Some("alice"), Some("bob")}
VisValues == {None, Some("public"), Some("private")}
ForkValues == {None, Some(TRUE), Some(FALSE)}
StarValues == {None} \cup {Some(n) : n \in 0..MaxStars}

\* repositories with every combination of known and unknown attributes
AllRepos ==
  {Repo(1, ow, vis, fk, st) :
     ow \in OwnerValues, vis \in VisValues, fk \in ForkValues,
     st \in StarValues}

\* the option values tried for the filter
AllArgs ==
  [fork : BOOLEAN,
   visibility : {{"public"}, {"public", "private"}},
   owner : {None, Some({"alice"})},
   star : 0..MaxStars]

InitFilter ==
  /\ pc = "filter"
  /\ exitCode = None
  /\ endedBy = ""
  /\ args \in AllArgs
  /\ numPages = None
  /\ pageTasks = <<>>
  /\ pageChan = <<>>
  /\ cur = 0
  /\ repos \in SeqsUpTo(AllRepos, MaxFilterLen)
  /\ served = <<>>
  /\ fetchFailed = FALSE
  /\ fetched = Range(repos)
  /\ outOfOrder = FALSE
  /\ matched = <<>>
  /\ map = <<>>
  /\ keys = <<>>
  /\ pairs = 0
  /\ presented = None
  /\ result = Unset
  /\ confirm = Unset
  /\ confirmed = <<>>
  /\ idx = 1
  /\ delTasks = <<>>
  /\ delChan = <<>>
  /\ deleteCalls = {}
  /\ errorLog = {}
  /\ progressMsgs = {}
  /\ progress = 0

NextFilter == FilterStep

SpecFilter == InitFilter /\ [][NextFilter]_vars

---------------------------------------------------------------------------
(* The filter chain applied to its own output (lines 128-150 run a second
   time with the same args) *)

MaxIdemLen == 2

\* records that pass, records that fail one filter each, and records with
\* unknown attributes
SampleRepos ==
  Universe \cup
    {Repo(5, Some("bob"), Some("public"), Some(TRUE), Some(0)),
     Repo(6, Some("alice"), Some("private"), Some(TRUE), None),
     Repo(7, None, None, Some(FALSE), Some(MaxStars))}

InitIdem ==
  /\ pc = "filter"
  /\ exitCode = None
  /\ endedBy = ""
  /\ args \in AllArgs
  /\ numPages = None
  /\ pageTasks = <<>>
  /\ pageChan = <<>>
  /\ cur = 0
  /\ repos \in SeqsUpTo(SampleRepos, MaxIdemLen)
  /\ served = <<>>
  /\ fetchFailed = FALSE
  /\ fetched = Range(repos)
  /\ outOfOrder = FALSE
  /\ matched = <<>>
  /\ map = <<>>
  /\ keys = <<>>
  /\ pairs = 0
  /\ presented = None
  /\ result = Unset
  /\ confirm = Unset
  /\ confirmed = <<>>
  /\ idx = 1
  /\ delTasks = <<>>
  /\ delChan = <<>>
  /\ deleteCalls = {}
  /\ errorLog = {}
  /\ progressMsgs = {}
  /\ progress = 0

\* the chain of lines 128-150 once more: its input is the list it produced
FilterAgain ==
  /\ pc = "check_empty"
  /\ repos' = matched
  /\ matched' = FilterRepos(matched, args)
  /\ pc' = "refiltered"
  /\ UNCHANGED <<exitCode, endedBy, args, cur, numPages, pageTasks, pageChan,
                 served, fetchFailed, fetched, outOfOrder, map, keys, pairs,
                 presented, result, confirm, confirmed>>
  /\ UNCHANGED delVars

NextIdem == FilterStep \/ FilterAgain

SpecIdem == InitIdem /\ [][NextIdem]_vars

---------------------------------------------------------------------------
(* Lists longer than the channels hold.  The spawned tasks are scheduled   *)
(* one at a time, in spawn order, and every call succeeds: one of the      *)
(* schedules of the run, which keeps the long runs small.                  *)

\* every page task spawned before the k-th has finished
PageTurn(k) == \A j \in 1..(k - 1) : pageTasks[j].st # "running"

\* every deletion task spawned before the k-th has finished
DelTurn(k) == \A j \in 1..(k - 1) : Completed(delTasks[j])

\* page counts around the capacity of the page channel
BigPageCounts == {Some(PageChanCap + 1), Some(PageChanCap + 2)}

\* what every page holds in the long listing
BigPage == <<RepoN>>

NextPagesBig ==
  \/ LoginOk
  \/ \E pn \in BigPageCounts : FetchFirstOk(pn, BigPage)
  \/ PageSpawn
  \/ PageSend
  \/ PageDropTx
  \/ PageRecv
  \/ PageAwait
  \/ PageYield
  \/ \E k \in DOMAIN pageTasks : PageTurn(k) /\ PageTaskDone(k, BigPage)
  \/ FilterStep
  \/ NoMatch

SpecPagesBig == Init /\ [][NextPagesBig]_vars

\* the i-th repository of a long confirmed list: a public fork of alice
BigRepo(i) == Repo(i, Some("alice"), Some("public"), Some(TRUE), Some(0))

\* list sizes around the capacity of the deletion channel
BigListSizes == {DelChanCap, DelChanCap + 1}

\* the executor is entered with n repositories selected and confirmed
InitDelBig ==
  \E n \in BigListSizes :
    /\ pc = "dispatch"
    /\ exitCode = None
    /\ endedBy = ""
    /\ args = DefaultArgs
    /\ numPages = Some(1)
    /\ pageTasks = <<>>
    /\ pageChan = <<>>
    /\ cur = 0
    /\ repos = <<>>
    /\ served = <<>>
    /\ fetchFailed = FALSE
    /\ fetched = {BigRepo(i) : i \in 1..n}
    /\ outOfOrder = FALSE
    /\ matched = <<>>
    /\ map = <<>>
    /\ keys = <<>>
    /\ pairs = n
    /\ presented = Some([i \in 1..n |-> i])
    /\ result = [tag |-> "Some", sel |-> [i \in 1..n |-> i], text |-> ""]
    /\ confirm = [tag |-> "Ok", sel |-> <<>>, text |-> ConfirmStr]
    /\ confirmed = [i \in 1..n |-> BigRepo(i)]
    /\ idx = 1
    /\ delTasks = <<>>
    /\ delChan = <<>>
    /\ deleteCalls = {}
    /\ errorLog = {}
    /\ progressMsgs = {}
    /\ progress = 0

NextDelBig ==
  \/ DelSpawn
  \/ DelSend
  \/ DelDropTx
  \/ DelRecv
  \/ DelAwait
  \/ DelDone
  \/ \E k \in DOMAIN delTasks : DelTurn(k) /\ DelTaskCall(k)
  \/ \E k \in DOMAIN delTasks : DelTurn(k) /\ DelTaskFinish(k, TRUE)

SpecDelBig == InitDelBig /\ [][NextDelBig]_vars

---------------------------------------------------------------------------
(* Properties of the run *)

\* the executor has been entered: both prompts were answered and passed
ExecutorEntered == pc \in {"dispatch", "del_send", "drain", "del_await",
                           "done", "returned"}

\* C1: a deletion task is dispatched, or a delete call issued, only after
\* the selection prompt returned a subset and the text typed at the second
\* prompt was exactly the fixed phrase; otherwise nothing is dispatched.
C1_TwoStepConfirmation ==
  (delTasks # <<>> \/ deleteCalls # {} \/ ExecutorEntered)
    => /\ result.tag = "Some"
       /\ confirm.tag = "Ok"
       /\ confirm.text = "I want to remove all repos above"

\* C1 witness: a delete call has been issued after the exact phrase
C1_Witness ==
  /\ deleteCalls # {}
  /\ confirm.text = "I want to remove all repos above"

\* the records of the confirmed list whose delete call failed
FailedCalls == {k \in DOMAIN delTasks : delTasks[k].st = "failed"}

\* the deletion tasks that completed without logging an error
ReportedSuccesses ==
  {k \in DOMAIN delTasks : Completed(delTasks[k]) /\ k \notin errorLog}

\* C2: once the list is confirmed, the run does not end early; when it has
\* ended, a delete call was issued for each of the N confirmed records, the
\* failures reported are exactly the K failed calls and the successes are
\* the other N-K.
C2_DeletionIsolation ==
  ExecutorEntered =>
    /\ pc # "returned"
    /\ pc = "done" =>
         /\ \A i \in DOMAIN confirmed :
              \E c \in deleteCalls : c.name = confirmed[i].name
         /\ Cardinality(deleteCalls) = Len(confirmed)
         /\ errorLog = FailedCalls
         /\ Cardinality(ReportedSuccesses)
              = Len(confirmed) - Cardinality(FailedCalls)

\* the number of pages the collector has to merge
TotalPages ==
  IF numPages = None \/ Unwrap(numPages) < 2 THEN 1 ELSE Unwrap(numPages)

RECURSIVE SumLen(_, _)
\* total length of f[1], ..., f[n]
SumLen(f, n) == IF n = 0 THEN 0 ELSE Len(f[n]) + SumLen(f, n - 1)

\* the collector has yielded: the filter stage is about to run or has run
Yielded == pc \in {"filter", "check_empty"}

\* C4: when the collector yields, every page task has completed and been
\* merged, and the merged list holds exactly the items of pages
\* 1..totalPages (as a bag), its length the sum of the page lengths; with
\* at most one page it is the items of page 1.
C4_PaginationComplete ==
  Yielded =>
    /\ \A k \in DOMAIN pageTasks : pageTasks[k].st = "joined"
    /\ DOMAIN served = 1..TotalPages
    /\ SameBag(repos, Flatten([p \in 1..TotalPages |-> served[p]]))
    /\ Len(repos) = SumLen(served, TotalPages)
    /\ TotalPages = 1 => repos = served[1]

\* C4 witness: the collector yielded after merging three non-empty pages
C4_Witness ==
  /\ pc = "filter"
  /\ numPages = Some(3)
  /\ Len(repos) >= 3

\* C6: once a page fetch has failed the process has ended with a non-zero
\* status, the selection prompt was never shown and no deletion was
\* dispatched or called.
C6_FailFastListing ==
  fetchFailed =>
    /\ pc = "exited"
    /\ exitCode # None /\ exitCode # Some(0)
    /\ presented = None
    /\ delTasks = <<>>
    /\ deleteCalls = {}

\* C6 witness: a later page failed after another page had already arrived
C6_Witness ==
  /\ fetchFailed
  /\ \E k \in DOMAIN pageTasks : pageTasks[k].st = "done"
  /\ \E k \in DOMAIN pageTasks : pageTasks[k].st = "running"

NoDuplicates(s) == \A i, j \in DOMAIN s : s[i] = s[j] => i = j

\* C10: the list shown to the selection prompt has one entry per qualified
\* name, without duplicates, however many records carried that name, and
\* every index the prompt returns denotes one record, the one of that name.
C10_Deduplication ==
  /\ pc \in {"select", "confirm"} =>
       /\ NoDuplicates(keys)
       /\ Range(keys) = DOMAIN map
       /\ Len(keys) <= pairs
       /\ \A n \in DOMAIN map : map[n].full_name = n
  /\ presented # None => NoDuplicates(Unwrap(presented))
  /\ (pc = "confirm" /\ result.tag = "Some") =>
       \A i \in Range(result.sel) :
         /\ i \in DOMAIN keys
         /\ keys[i] \in DOMAIN map

\* C10 witness: the prompt returned indices for a list that had more
\* records than names
C10_Witness ==
  /\ pc = "confirm"
  /\ result.tag = "Some"
  /\ result.sel # <<>>
  /\ pairs > Len(keys)

---------------------------------------------------------------------------
(* Properties of the long runs *)

\* C3: whatever the length of the confirmed list, the executor spawns one
\* task per record before it waits for any, waits for all of them, and the
\* run reaches its end: until then some step of the run is always possible.
C3_ExecutorTerminates ==
  /\ pc \in {"drain", "del_await", "done"} => Len(delTasks) = Len(confirmed)
  /\ pc = "done" => \A k \in DOMAIN delTasks : Completed(delTasks[k])
  /\ pc \in Finished \/ ENABLED NextDelBig

\* C5: for every page count of two or more the collector spawns exactly
\* one task per page 2..totalPages, each asking for its own page number,
\* and goes on to yield: until then some step of the run is always possible.
C5_PaginationDispatch ==
  /\ \A k \in DOMAIN pageTasks : pageTasks[k].req = k + 1
  /\ pc \in {"page_recv", "page_await", "filter", "check_empty"}
       => Len(pageTasks) = TotalPages - 1
  /\ pc \in Finished \/ ENABLED NextPagesBig

---------------------------------------------------------------------------
(* Properties of the filter *)

\* the filter has run on the list in `repos`
Filtered == pc = "check_empty"

\* every criterion that reads a known attribute of r is met, a known fork
\* flag being compared as the filter compares it
KnownAttributesPass(r, a) ==
  /\ (r.owner # None /\ a.owner # None)
       => Unwrap(r.owner) \in Unwrap(a.owner)
  /\ r.visibility # None => Unwrap(r.visibility) \in a.visibility
  /\ r.fork # None => Unwrap(r.fork) = a.fork
  /\ r.stargazers_count # None => Unwrap(r.stargazers_count) <= a.star

\* C7: a record that meets every criterion on its known attributes is in
\* the filter output, whichever of its attributes are unknown.
C7_FailOpen ==
  Filtered =>
    \A i \in DOMAIN repos :
      KnownAttributesPass(repos[i], args) => repos[i] \in Range(matched)

AllKnown(r) ==
  /\ r.owner # None
  /\ r.visibility # None
  /\ r.fork # None
  /\ r.stargazers_count # None

\* the conjunction of the four criteria for a record without unknowns
Conjunction(r, a) ==
  /\ a.owner = None \/ Unwrap(r.owner) \in Unwrap(a.owner)
  /\ Unwrap(r.visibility) \in a.visibility
  /\ Unwrap(r.fork) = TRUE
  /\ Unwrap(r.stargazers_count) <= a.star

\* C8: with --fork true a record whose attributes are all known is kept
\* iff it meets the owner, visibility, fork and star criteria together
\* (stars equal to the bound included); the output is the input list
\* restricted to the kept records, nothing added and the order unchanged.
C8_FilterConjunction ==
  (Filtered /\ args.fork = TRUE) =>
    /\ \A i \in DOMAIN repos :
         AllKnown(repos[i]) =>
           (repos[i] \in Range(matched) <=> Conjunction(repos[i], args))
    /\ LET Kept(r) == r \in Range(matched)
       IN  matched = SelectSeq(repos, Kept)

\* C8 witness: a fully known record with exactly --star stars, under an
\* owner list, was kept
C8_Witness ==
  /\ Filtered
  /\ args.fork = TRUE
  /\ args.owner # None
  /\ args.star > 0
  /\ \E i \in DOMAIN matched :
       /\ AllKnown(matched[i])
       /\ Unwrap(matched[i].stargazers_count) = args.star

\* the criteria bundles that relax one criterion of a
Relaxations(a) ==
  {[a EXCEPT !.owner = None]}
  \cup {[a EXCEPT !.visibility = V] :
          V \in {W \in SUBSET {"public", "internal", "private"} :
                   a.visibility \subseteq W}}
  \cup {[a EXCEPT !.star = n] : n \in a.star..MaxStars}
  \cup {[a EXCEPT !.fork = FALSE]}

\* C9: relaxing one criterion (no owner list, more visibility tags, a
\* higher star bound, --fork false instead of true) never loses a match.
C9_MonotoneRelaxation ==
  Filtered =>
    \A b \in Relaxations(args) :
      Range(matched) \subseteq Range(FilterRepos(repos, b))

---------------------------------------------------------------------------
(* Properties of the end of the run *)

\* the filter has run and kept nothing
EmptyOutput ==
  /\ matched = <<>>
  /\ pairs = 0
  /\ pc = "check_empty" \/ endedBy = "no_match"

\* C11: when the filter output is empty the run ends with status 0 (and
\* nothing else can end it), neither prompt is invoked and no deletion is
\* dispatched or called; so a prompt is only ever shown a non-empty list.
C11_EmptyShortCircuit ==
  /\ EmptyOutput =>
       /\ presented = None /\ result = Unset /\ confirm = Unset
       /\ delTasks = <<>> /\ deleteCalls = {}
       /\ pc \in Finished => (pc = "exited" /\ exitCode = Some(0))
  /\ (pc = "check_empty" /\ matched = <<>>) => ENABLED NoMatch
  /\ endedBy = "no_match" => EmptyOutput
  /\ presented # None => (pairs > 0 /\ Unwrap(presented) # <<>>)

\* C11 witness: repositories were fetched, none matched, the run has ended
C11_Witness ==
  /\ endedBy = "no_match"
  /\ repos # <<>>
  /\ exitCode = Some(0)

\* C12: a run that has ended has status 0 exactly when it ended by "no
\* matched repos" or by completing the deletion stage, and a non-zero
\* status when it ended by a failed login, a failed page fetch, or a
\* cancelled, failed or mismatched prompt.
C12_ExitStatus ==
  pc \in Finished =>
    /\ exitCode # None
    /\ exitCode = Some(0) <=> endedBy \in {"no_match", "done"}
    /\ endedBy \in {"login", "fetch", "select", "confirm"}
         => exitCode # Some(0)

\* C13: filtering the output of the filter again, with the same criteria,
\* gives the identical list (same records, same order, same multiplicity).
C13_FilterIdempotent ==
  pc = "refiltered" => matched = repos

\* C13 witness: the first pass dropped a record and kept one, and the
\* second pass has run on what was kept
C13_Witness ==
  /\ pc = "refiltered"
  /\ matched # <<>>
  /\ fetched # Range(repos)

---------------------------------------------------------------------------
(* Properties of the deletion executor's outcomes *)

\* the deletion tasks spawned and not yet run to their end
InFlight == {k \in DOMAIN delTasks : ~Completed(delTasks[k])}

\* C14: the run never returns or exits while a dispatched deletion task is
\* still in flight, whatever the confirmed list (owners present or not).
C14_NoAbandonedDeletion ==
  pc \in Finished => InFlight = {}

\* the confirmed records that have an owner
Owned == {i \in DOMAIN confirmed : confirmed[i].owner # None}

\* C15: a confirmed record without an owner does not abort the executor: the
\* run ends by completing the deletion stage, and every confirmed record
\* that has an owner, before or after it, got a task that was awaited.
C15_MissingOwnerPerRecord ==
  /\ pc # "returned"
  /\ pc = "done" =>
       \A i \in Owned :
         \E k \in DOMAIN delTasks :
           /\ delTasks[k].name = confirmed[i].name
           /\ Completed(delTasks[k])

\* C16: a completed deletion has exactly one outcome: a failed call is
\* logged as failed and gets no "Deleted owner/name" message, a call that
\* succeeded gets the message and is not logged as failed.
C16_SingleOutcome ==
  \A k \in DOMAIN delTasks :
    /\ delTasks[k].st = "failed" => (k \in errorLog /\ k \notin progressMsgs)
    /\ delTasks[k].st = "ok" => (k \in progressMsgs /\ k \notin errorLog)

\* the prompt returned an empty selection and the phrase was typed exactly
EmptySubsetConfirmed ==
  /\ result.tag = "Some"
  /\ result.sel = <<>>
  /\ ConfirmMatches(confirm)

\* C17: an empty confirmed subset is an abort: no deletion task is
\* dispatched and the run ends with the status of a cancellation (1), not
\* with the status of a completed run.
C17_EmptySubsetAborts ==
  EmptySubsetConfirmed =>
    /\ delTasks = <<>>
    /\ deleteCalls = {}
    /\ pc \in Finished => (pc = "exited" /\ exitCode = Some(1))

---------------------------------------------------------------------------
(* Properties of the pipeline as a whole *)

\* the qualified names a delete call was issued for
CalledNames == {c.name : c \in deleteCalls}

\* the qualified names shown by the selection prompt
ShownNames == IF presented = None THEN {} ELSE Range(Unwrap(presented))

\* the qualified names the user left selected
SelectedNames ==
  IF presented = None \/ result.tag # "Some"
  THEN {}
  ELSE {Unwrap(presented)[i] : i \in Range(result.sel)}

\* the fetched records that satisfy every configured predicate
Passing ==
  {r \in fetched : /\ OwnerFilter(r, args) /\ VisFilter(r, args)
                   /\ ForkFilter(r, args) /\ StarFilter(r, args)}

\* C18: the names a delete call is issued for are among the names selected
\* at the prompt, which are among the names of the filter output, which are
\* among the fetched records; each call carries the owner of that record,
\* and no qualified name gets two calls.
C18_DeletionTargets ==
  /\ CalledNames \subseteq SelectedNames
  /\ SelectedNames \subseteq ShownNames
  /\ ShownNames \subseteq {r.full_name : r \in Passing}
  /\ Range(matched) \subseteq Passing
  /\ Range(confirmed) \subseteq Passing
  /\ \A c \in deleteCalls :
       \E r \in Passing :
         r.full_name = c.name /\ r.name = c.name /\ r.owner = Some(c.owner)
  /\ \A c, d \in deleteCalls : c.name = d.name => c = d

\* C18 witness: a delete call was issued in a run where a fetched repository
\* failed a predicate and a repository shown was deselected
C18_Witness ==
  /\ deleteCalls # {}
  /\ Passing # fetched
  /\ SelectedNames # ShownNames
  /\ CalledNames = SelectedNames

\* C19: when the collector yields, the merged list is the concatenation of
\* page 1, page 2, ..., page totalPages in page order, whatever the order in
\* which the page tasks completed.
C19_DeterministicMerge ==
  Yielded =>
    repos = Flatten([p \in 1..TotalPages |-> served[p]])

\* C19 witness: a later page completed while an earlier page was still being
\* fetched, the pages differ, and the collector has yielded
C19_Witness ==
  /\ pc = "filter"
  /\ outOfOrder
  /\ TotalPages = 3
  /\ served[2] # <<>>
  /\ served[3] # <<>>
  /\ served[2] # served[3]

===========================================================================
